---- MODULE Spec2Model ----
(***************************************************************************)
(* Model of the OpenSlides start-up helpers (openslides/utils/main.py) and *)
(* of motions migration 0021 (state access level).                         *)
(*                                                                         *)
(* Strings that the code takes apart (paths, file names) are sequences of  *)
(* atoms: "/" and "." are the two characters the code looks at, every      *)
(* other atom stands for a run of ordinary characters.                     *)
(***************************************************************************)
EXTENDS Integers, Sequences, FiniteSets, TLC

VARIABLES
    sys_path,       \* sys.path, a list of directories
    environ,        \* os.environ[ENVIRONMENT_VARIABLE]
    ret,            \* the last call: its function, argument and outcome
    platform,       \* sys.platform
    executable,     \* sys.executable
    xdg_config_home,\* os.environ['XDG_CONFIG_HOME']
    xdg_data_home,  \* os.environ['XDG_DATA_HOME']
    shell_folder,   \* what SHGetFolderPathW answers: [res, value]
    writable,       \* whether files can be created in the portable directory
    files,          \* the files in the directory of the executable
    fds,            \* the file descriptors this process holds open
    fs,             \* the settings files: path -> content, or NoFile
    dirs,           \* the directories that exist
    caller,         \* the main thread: where it is in start_browser
    frames,         \* the frames of the start_browser calls: [browser_url, browser]
    threads,        \* the background threads: where each is in function()
    events,         \* what the threads have done so far, in order
    schema,         \* the fields of the motions State model
    rows,           \* the motion states in the database: id -> field -> value
    original,       \* required_permission_to_see of each state before the migration
    applied,        \* the number of operations of the migration applied so far
    cursor,         \* the state the running transformation handles next, 0 when none runs
    faults          \* the reads and writes of fields the schema did not have

djangoVars == <<sys_path, environ, ret>>
pathEnv == <<platform, executable, xdg_config_home, xdg_data_home, shell_folder, writable>>
pathVars == <<pathEnv, files, fds, fs, dirs>>
serverVars == <<caller, frames, threads, events>>
migrationVars == <<schema, rows, original, applied, cursor, faults>>
vars == <<djangoVars, pathVars, serverVars, migrationVars>>

\* ---------------------------------------------------------------- bounds

\* sys.path grows by one entry with every settings module set up
MaxSysPath == 3

\* ------------------------------------------------------- python helpers

SEP == "/"
DOT == "."

Max(S) == CHOOSE m \in S : \A x \in S : x <= m

\* str.rfind(c) + 1: the 1-based place of the last c in s, 0 when there is none
RFind(s, c) ==
    LET I == {i \in 1..Len(s) : s[i] = c}
    IN IF I = {} THEN 0 ELSE Max(I)

\* c in s
Contains(s, c) == \E i \in 1..Len(s) : s[i] = c

\* str.rstrip(c)
RECURSIVE RStrip(_, _)
RStrip(s, c) ==
    IF s # <<>> /\ s[Len(s)] = c THEN RStrip(SubSeq(s, 1, Len(s) - 1), c) ELSE s

\* str.split(c): the list of the pieces of s between the c's
RECURSIVE Split(_, _)
Split(s, c) ==
    LET I == {i \in 1..Len(s) : s[i] = c}
    IN IF I = {} THEN <<s>>
       ELSE LET i == Max(I)
            IN Append(Split(SubSeq(s, 1, i - 1), c), SubSeq(s, i + 1, Len(s)))

\* c.join(list)
RECURSIVE JoinStr(_, _)
JoinStr(c, list) ==
    IF list = <<>> THEN <<>>
    ELSE IF Len(list) = 1 THEN list[1]
    ELSE list[1] \o <<c>> \o JoinStr(c, Tail(list))

\* os.path.basename
basename(p) == SubSeq(p, RFind(p, SEP) + 1, Len(p))

\* os.path.dirname
dirname(p) ==
    LET head == SubSeq(p, 1, RFind(p, SEP))
    IN IF head # <<>> /\ (\E i \in 1..Len(head) : head[i] # SEP)
       THEN RStrip(head, SEP) ELSE head

\* os.path.join(path, *parts)
RECURSIVE join(_, _)
join(path, parts) ==
    IF parts = <<>> THEN path
    ELSE LET b == Head(parts)
             joined == IF b # <<>> /\ b[1] = SEP THEN b
                       ELSE IF path = <<>> \/ path[Len(path)] = SEP THEN path \o b
                       ELSE path \o <<SEP>> \o b
         IN join(joined, Tail(parts))

\* the components of a path: its pieces between separators, empty ones dropped
Components(p) == SelectSeq(Split(p, SEP), LAMBDA c : c # <<>>)

\* os.path.abspath of a path without "." and ".." components
CWD == <<SEP, "cwd">>
abspath(p) ==
    LET full == IF p # <<>> /\ p[1] = SEP THEN p ELSE join(CWD, <<p>>)
    IN <<SEP>> \o JoinStr(SEP, Components(full))

\* str.lower(), atom by atom
LowerAtom(a) ==
    CASE a = "OpenSlides" -> "openslides"
      [] a = "EXE" -> "exe"
      [] OTHER -> a
lower(s) == [i \in 1..Len(s) |-> LowerAtom(s[i])]

\* filesystem2unicode: decodes a byte string with the file system's encoding;
\* every atom of the model is ASCII text, which decodes to itself
DecodeAtom(a) == a
filesystem2unicode(path) == [i \in 1..Len(path) |-> DecodeAtom(path[i])]

\* repr() of a unicode string
repr(s) == <<"u'">> \o s \o <<"'">>

\* Python values: None and strings
PyNone == [py |-> "None"]
PyStr(s) == [py |-> "str", s |-> s]
\* bool(v) of such a value
Truthy(v) == v.py = "str" /\ v.s # <<>>

\* how a call ends: with an exception, or returning a value
NoExc == "none"
Raise(e) == [exc |-> e]
Return(v) == [exc |-> NoExc, val |-> v]

\* ------------------------------------------- setup_django_settings_module

Unset == [set |-> FALSE]
EnvValue(v) == [set |-> TRUE, value |-> v]

settings_module_name(settings_path) ==
    LET settings_file == basename(settings_path)
        parts == Split(settings_file, DOT)
    IN JoinStr(DOT, SubSeq(parts, 1, Len(parts) - 1))

\* the settings paths the calls are made with
SettingsPaths ==
    { <<"/", "etc", "/", "settings", ".", "py">>,
      <<"settings", ".", "py">>,
      <<"/", "settings", ".", "py">>,
      <<"/", "etc", "/", "my", ".", "settings", ".", "py">>,
      <<"/", "etc", ".", "d", "/", "settings", ".", "py">>,
      <<"/", "etc", "/", "settings">>,
      <<"/", "etc", "/", ".", "settings">>,
      <<"conf", "/", "settings", ".", "py", ".", "bak">>,
      <<"/", "etc", "/">> }

setup_django_settings_module(settings_path) ==
    /\ Len(sys_path) < MaxSysPath
    /\ IF Contains(settings_module_name(settings_path), DOT)
       THEN /\ ret' = [fn |-> "setup_django_settings_module", arg |-> settings_path,
                       out |-> Raise("ImproperlyConfigured")]
            /\ UNCHANGED <<sys_path, environ>>
       ELSE /\ sys_path' = <<dirname(settings_path)>> \o sys_path
            /\ environ' = EnvValue(settings_module_name(settings_path))
            /\ ret' = [fn |-> "setup_django_settings_module", arg |-> settings_path,
                       out |-> Return(PyNone)]

\* --------------------------------------- get_database_path_from_settings

\* dict.get(key): the value, or None when the key is missing
Get(d, key) == IF key \in DOMAIN d THEN d[key] ELSE PyNone

DEFAULT_DB_ALIAS == "default"
SQLITE3 == <<"django.db.backends.sqlite3">>
POSTGRESQL == <<"django.db.backends.postgresql">>

Engines == {SQLITE3, POSTGRESQL, <<>>}
Names == {<<SEP, "data", SEP, "database", DOT, "sqlite">>, <<"openslides">>, <<>>}

\* the entries of settings.DATABASES: dicts with any of the keys ENGINE, NAME
DatabaseEntries ==
    UNION { { e \in [K -> {PyStr(x) : x \in Engines \cup Names}] :
                /\ "ENGINE" \in K => e["ENGINE"].s \in Engines
                /\ "NAME" \in K => e["NAME"].s \in Names }
            : K \in SUBSET {"ENGINE", "NAME"} }

\* settings.DATABASES, with or without an entry for the default alias
DatabaseSettings ==
    UNION { [A -> DatabaseEntries] : A \in SUBSET {DEFAULT_DB_ALIAS} }

\* get_database_path_from_settings without the test of the NAME
database_path_name_unchecked(db_settings) ==
    IF DEFAULT_DB_ALIAS \notin DOMAIN db_settings
       \/ DOMAIN db_settings[DEFAULT_DB_ALIAS] = {}
    THEN Raise("DatabaseInSettingsError")
    ELSE LET default == db_settings[DEFAULT_DB_ALIAS]
         IN IF Get(default, "ENGINE") # PyStr(SQLITE3)
            THEN Return(PyNone)
            ELSE Return(Get(default, "NAME"))

\* get_database_path_from_settings without the test of the ENGINE
database_path_any_engine(db_settings) ==
    IF DEFAULT_DB_ALIAS \notin DOMAIN db_settings
       \/ DOMAIN db_settings[DEFAULT_DB_ALIAS] = {}
    THEN Raise("DatabaseInSettingsError")
    ELSE LET default == db_settings[DEFAULT_DB_ALIAS]
         IN IF ~Truthy(Get(default, "NAME"))
            THEN Raise("DatabaseInSettingsError")
            ELSE Return(Get(default, "NAME"))

\* the outcome of get_database_path_from_settings() under settings.DATABASES
database_path_from_settings(db_settings) ==
    IF DEFAULT_DB_ALIAS \notin DOMAIN db_settings
       \/ DOMAIN db_settings[DEFAULT_DB_ALIAS] = {}
    THEN Raise("DatabaseInSettingsError")
    ELSE LET default == db_settings[DEFAULT_DB_ALIAS]
             database_path == Get(default, "NAME")
         IN IF ~Truthy(database_path)
            THEN Raise("DatabaseInSettingsError")
            ELSE IF Get(default, "ENGINE") # PyStr(SQLITE3)
                 THEN Return(PyNone)
                 ELSE Return(database_path)

get_database_path_from_settings(db_settings) ==
    /\ ret' = [fn |-> "get_database_path_from_settings", arg |-> db_settings,
               out |-> database_path_from_settings(db_settings)]
    /\ UNCHANGED <<sys_path, environ>>

\* ------------------------------------------------- OpenSlides types

UNIX_VERSION == "Unix Version"
WINDOWS_VERSION == "Windows Version"
WINDOWS_PORTABLE_VERSION == "Windows Portable Version"

detect_openslides_type ==
    IF platform = "win32"
    THEN IF lower(basename(executable)) = <<"openslides", ".", "exe">>
         THEN WINDOWS_PORTABLE_VERSION
         ELSE WINDOWS_VERSION
    ELSE UNIX_VERSION

\* os.environ.get(name, default) of a variable that is unset or set
EnvironGet(var, default) == IF var.set THEN var.value ELSE default

\* os.path.expanduser('~')
UserHome == <<SEP, "home", SEP, "user">>

\* get_win32_app_data_path(): the WinDLL exists only on Windows
get_win32_app_data_path ==
    IF platform # "win32" THEN Raise("AttributeError")
    ELSE IF shell_folder.res # 0 THEN Raise("Exception")
    ELSE Return(shell_folder.value)

\* ---------------------------------------------- get_win32_portable_path

\* the names tempfile.mkstemp draws from
TempNames == {"tmpaaa", "tmpbbb", "tmpccc"}

\* a directory with its open descriptors: [files, fds]
mkstemp(d, name) == [files |-> d.files \cup {name}, fds |-> d.fds \cup {name}]
os_close(d, fd) == [d EXCEPT !.fds = @ \ {fd}]
\* an unlink that leaves the file where it is
os_unlink_skipped(d, name) == d
os_unlink(d, name) == [d EXCEPT !.files = @ \ {name}]

\* the call with mkstemp drawing `name`: its outcome and the directory after it
win32_portable_path(name) ==
    LET portable_path == filesystem2unicode(dirname(abspath(executable)))
        before == [files |-> files, fds |-> fds]
    IN IF ~writable
       THEN [out |-> Raise("PortableDirNotWritable"), dir |-> before]
       ELSE [out |-> Return(portable_path),
             dir |-> os_unlink(os_close(mkstemp(before, name), name), name)]

get_win32_portable_path ==
    \E name \in TempNames \ files :
        LET r == win32_portable_path(name)
        IN /\ ret' = [fn |-> "get_win32_portable_path", out |-> r.out]
           /\ files' = r.dir.files
           /\ fds' = r.dir.fds
           /\ UNCHANGED <<pathEnv, fs, dirs>>

\* ------------------------------------------------------- default paths

\* the parent directory with the two Windows branches exchanged
settings_parent_directory_exchanged(openslides_type, name) ==
    IF openslides_type = UNIX_VERSION
    THEN Return(filesystem2unicode(EnvironGet(xdg_config_home,
                    join(UserHome, << <<DOT, "config">> >>))))
    ELSE IF openslides_type = WINDOWS_VERSION THEN win32_portable_path(name).out
    ELSE IF openslides_type = WINDOWS_PORTABLE_VERSION THEN get_win32_app_data_path
    ELSE Raise("TypeError")

\* the parent directory of the default settings, with mkstemp drawing `name`
settings_parent_directory(openslides_type, name) ==
    IF openslides_type = UNIX_VERSION
    THEN Return(filesystem2unicode(EnvironGet(xdg_config_home,
                    join(UserHome, << <<DOT, "config">> >>))))
    ELSE IF openslides_type = WINDOWS_VERSION THEN get_win32_app_data_path
    ELSE IF openslides_type = WINDOWS_PORTABLE_VERSION THEN win32_portable_path(name).out
    ELSE Raise("TypeError")

default_settings_path(openslides_type, name) ==
    LET parent_directory == settings_parent_directory(openslides_type, name)
    IN IF parent_directory.exc # NoExc THEN parent_directory
       ELSE Return(join(parent_directory.val,
                        << <<"openslides">>, <<"settings", DOT, "py">> >>))

default_user_data_path(openslides_type, name) ==
    IF openslides_type = UNIX_VERSION
    THEN Return(filesystem2unicode(EnvironGet(xdg_data_home,
                    join(UserHome, << <<DOT, "local">>, <<"share">> >>))))
    ELSE IF openslides_type = WINDOWS_VERSION THEN get_win32_app_data_path
    ELSE IF openslides_type = WINDOWS_PORTABLE_VERSION THEN win32_portable_path(name).out
    ELSE Raise("TypeError")

\* the directory of the executable after a call with this type
DirAfter(openslides_type, name) ==
    IF openslides_type = WINDOWS_PORTABLE_VERSION
    THEN win32_portable_path(name).dir
    ELSE [files |-> files, fds |-> fds]

\* the arguments the two functions are called with
OpenSlidesTypes ==
    {UNIX_VERSION, WINDOWS_VERSION, WINDOWS_PORTABLE_VERSION, "Mac Version", "unix version"}

get_default_settings_path(openslides_type) ==
    \E name \in TempNames \ files :
        /\ ret' = [fn |-> "get_default_settings_path", arg |-> openslides_type,
                   out |-> default_settings_path(openslides_type, name)]
        /\ files' = DirAfter(openslides_type, name).files
        /\ fds' = DirAfter(openslides_type, name).fds
        /\ UNCHANGED <<pathEnv, fs, dirs>>

get_default_user_data_path(openslides_type) ==
    \E name \in TempNames \ files :
        /\ ret' = [fn |-> "get_default_user_data_path", arg |-> openslides_type,
                   out |-> default_user_data_path(openslides_type, name)]
        /\ files' = DirAfter(openslides_type, name).files
        /\ fds' = DirAfter(openslides_type, name).fds
        /\ UNCHANGED <<pathEnv, fs, dirs>>

\* ------------------------------------------------------ settings file

\* get_user_data_path_values_with_path(*paths)
get_user_data_path_values_with_path(paths) ==
    LET final_path == abspath(join(Head(paths), Tail(paths)))
    IN [import_function |-> <<>>,
        database_path_value |->
            repr(filesystem2unicode(join(final_path, << <<"database", DOT, "sqlite">> >>))),
        media_path_value |->
            repr(filesystem2unicode(join(final_path, << <<"media">>, <<>> >>))),
        whoosh_index_path_value |->
            repr(filesystem2unicode(join(final_path, << <<"whoosh_index">>, <<>> >>)))]

\* get_user_data_path_values(user_data_path, default, openslides_type)
get_user_data_path_values(user_data_path, default, openslides_type) ==
    IF default /\ openslides_type = WINDOWS_PORTABLE_VERSION
    THEN [import_function |-> <<"from openslides.utils.main import get_portable_paths">>,
          database_path_value |-> <<"get_portable_paths('database')">>,
          media_path_value |-> <<"get_portable_paths('media')">>,
          whoosh_index_path_value |-> <<"get_portable_paths('whoosh_index')">>]
    ELSE get_user_data_path_values_with_path(<<user_data_path, <<"openslides">> >>)

\* d with d[key] = value added: default_context['debug'] = 'False'
SetItem(d, key, value) ==
    [k \in DOMAIN d \cup {key} |-> IF k = key THEN value ELSE d[k]]

\* get_default_settings_context(user_data_path), with mkstemp drawing `name`
get_default_settings_context(user_data_path, name) ==
    IF Truthy(user_data_path)
    THEN Return(SetItem(get_user_data_path_values(user_data_path.s, FALSE, "None"),
                        "debug", <<"False">>))
    ELSE LET openslides_type == detect_openslides_type
             path == default_user_data_path(openslides_type, name)
         IN IF path.exc # NoExc THEN path
            ELSE Return(SetItem(get_user_data_path_values(path.val, TRUE, openslides_type),
                                "debug", <<"False">>))

NoFile == [file |-> FALSE]
File(content) == [file |-> TRUE, content |-> content]

\* an existence test that never finds anything
exists_nothing(path) == FALSE

\* os.path.exists
Exists(path) == (path \in DOMAIN fs /\ fs[path].file) \/ abspath(path) \in dirs

\* the values b64encode(os.urandom(30)) takes
MaxSecretKey == 2
SecretKeys == 1..MaxSecretKey

\* write_settings(settings_path, **context): the file system after it, and its
\* outcome; can_open tells whether open(settings_path, 'w') succeeds
write_settings(settings_path, context, secret_key, can_open) ==
    LET content == SetItem(context, "secret_key", secret_key)
        settings_module == abspath(dirname(settings_path))
        made == IF settings_module \notin dirs THEN dirs \cup {settings_module} ELSE dirs
    IN IF can_open
       THEN [out |-> Return(PyNone), dirs |-> made,
             fs |-> [fs EXCEPT ![settings_path] = File(content)]]
       ELSE [out |-> Raise("IOError"), dirs |-> made, fs |-> fs]

\* the settings paths and the parsed command line arguments of the calls
SettingsFiles ==
    { <<SEP, "home", SEP, "user", SEP, DOT, "config", SEP, "openslides", SEP,
        "settings", DOT, "py">>,
      <<SEP, "srv", SEP, "settings", DOT, "py">> }
SettingsArguments == {PyNone, PyStr(<<>>)} \cup {PyStr(f) : f \in SettingsFiles}
Arguments ==
    { [a \in {} |-> PyNone],
      [user_data_path |-> PyNone],
      [user_data_path |-> PyStr(<<SEP, "data">>)] }

ensure_settings(settings, args) ==
    IF Truthy(settings) /\ ~Exists(settings.s)
    THEN \E name \in TempNames \ files, secret_key \in SecretKeys, can_open \in BOOLEAN :
            LET user_data_path == IF "user_data_path" \notin DOMAIN args
                                  THEN PyNone ELSE args["user_data_path"]
                context == get_default_settings_context(user_data_path, name)
                after == IF Truthy(user_data_path)
                         THEN [files |-> files, fds |-> fds]
                         ELSE DirAfter(detect_openslides_type, name)
            IN /\ files' = after.files
               /\ fds' = after.fds
               /\ IF context.exc # NoExc
                  THEN /\ ret' = [fn |-> "ensure_settings", arg |-> settings, out |-> context]
                       /\ UNCHANGED <<fs, dirs>>
                  ELSE LET w == write_settings(settings.s, context.val, secret_key, can_open)
                       IN /\ ret' = [fn |-> "ensure_settings", arg |-> settings,
                                     out |-> w.out]
                          /\ fs' = w.fs
                          /\ dirs' = w.dirs
               /\ UNCHANGED pathEnv
    ELSE /\ ret' = [fn |-> "ensure_settings", arg |-> settings, out |-> Return(PyNone)]
         /\ UNCHANGED <<pathEnv, files, fds, fs, dirs>>

\* ----------------------------------------------- SpecPaths, SpecSettings

Executables ==
    { <<SEP, "usr", SEP, "bin", SEP, "python">>,
      <<SEP, "Python27", SEP, "python", DOT, "exe">>,
      <<SEP, "portable", SEP, "OpenSlides", DOT, "EXE">> }
XdgValues == {Unset, EnvValue(<<>>), EnvValue(<<SEP, "xdg">>), EnvValue(<<SEP, "xdg", SEP>>)}
ShellFolders ==
    { [res |-> 0, value |-> <<SEP, "Users", SEP, "user", SEP, "AppData", SEP, "Local">>],
      [res |-> 1, value |-> <<>>] }
ExistingSettings == <<SEP, "srv", SEP, "settings", DOT, "py">>

PathsStart ==
    /\ platform \in {"win32", "linux2"}
    /\ executable \in Executables
    /\ xdg_config_home \in XdgValues
    /\ xdg_data_home \in XdgValues
    /\ shell_folder \in ShellFolders
    /\ writable \in BOOLEAN
    /\ files = {"openslides.exe", "tmpaaa"}
    /\ fds = {}
    /\ fs \in {f \in [SettingsFiles -> {NoFile, File([secret_key |-> 0])}] :
                 \A q \in SettingsFiles : f[q].file => q = ExistingSettings}
    /\ dirs = {<<SEP, "srv">>}

ServerOff ==
    /\ caller = [pc |-> "off"]
    /\ frames = <<>>
    /\ threads = <<>>
    /\ events = <<>>

MigrationOff ==
    /\ schema = {}
    /\ rows = <<>>
    /\ original = <<>>
    /\ applied = 0
    /\ cursor = 0
    /\ faults = {}

PathsOff ==
    /\ platform = "linux2"
    /\ executable = <<>>
    /\ xdg_config_home = Unset
    /\ xdg_data_home = Unset
    /\ shell_folder = [res |-> 0, value |-> <<>>]
    /\ writable = FALSE
    /\ files = {}
    /\ fds = {}
    /\ fs = <<>>
    /\ dirs = {}

DjangoStart ==
    /\ sys_path = << <<SEP, "usr", SEP, "lib">> >>
    /\ environ \in {Unset, EnvValue(<<"old_settings">>)}

DjangoOff ==
    /\ sys_path = <<>>
    /\ environ = Unset

InitPaths ==
    /\ PathsStart
    /\ DjangoOff
    /\ ServerOff
    /\ MigrationOff
    /\ ret = [fn |-> "none"]

DetectType ==
    /\ ret' = [fn |-> "detect_openslides_type", out |-> detect_openslides_type]
    /\ UNCHANGED <<pathEnv, files, fds, fs, dirs>>

NextPaths ==
    /\ \/ DetectType
       \/ get_win32_portable_path
       \/ \E openslides_type \in OpenSlidesTypes : get_default_settings_path(openslides_type)
       \/ \E openslides_type \in OpenSlidesTypes : get_default_user_data_path(openslides_type)
    /\ UNCHANGED <<sys_path, environ, serverVars, migrationVars>>

SpecPaths == InitPaths /\ [][NextPaths]_vars

\* the directory that holds the executable
ExecutableDirectory == SubSeq(executable, 1, RFind(executable, SEP) - 1)

\* what a step that is a call of get_win32_portable_path does
C4_PortableStep ==
    ret'.fn = "get_win32_portable_path" =>
        /\ ret'.out = (IF writable THEN Return(ExecutableDirectory)
                                   ELSE Raise("PortableDirNotWritable"))
        /\ files' = files
        /\ fds' = fds

\* C4: get_win32_portable_path raises PortableDirNotWritable and returns no
\* path when no temporary file can be created in the directory of the
\* executable; when one can, it returns that directory, and the probe file is
\* closed and deleted again: the directory holds the files it held before.
C4_PortablePath == [][C4_PortableStep]_vars

\* a call has returned the portable directory
C4_Witness ==
    /\ ret.fn = "get_win32_portable_path"
    /\ writable
    /\ ret.out = Return(<<SEP, "portable">>)
    /\ fds = {}

\* whether a path names the entry reached from `parent` through `names`
Absolute(path) == path # <<>> /\ path[1] = SEP
PathUnder(path, parent, names) ==
    /\ Components(path) = Components(parent) \o names
    /\ Absolute(path) <=> Absolute(parent)

\* the parent directory each type stands for, when its lookup succeeds
HomeConfig == <<SEP, "home", SEP, "user", SEP, DOT, "config">>
HomeData == <<SEP, "home", SEP, "user", SEP, DOT, "local", SEP, "share">>
LookupSucceeds(openslides_type) ==
    CASE openslides_type = WINDOWS_VERSION -> platform = "win32" /\ shell_folder.res = 0
      [] openslides_type = WINDOWS_PORTABLE_VERSION -> writable
      [] OTHER -> TRUE
ParentOf(openslides_type, xdg_home, fallback) ==
    CASE openslides_type = UNIX_VERSION -> IF xdg_home.set THEN xdg_home.value ELSE fallback
      [] openslides_type = WINDOWS_VERSION -> shell_folder.value
      [] openslides_type = WINDOWS_PORTABLE_VERSION -> ExecutableDirectory

\* C7: for each of the three OpenSlides types get_default_settings_path is
\* <parent>/openslides/settings.py and get_default_user_data_path is the data
\* parent, the parent being XDG_CONFIG_HOME (default ~/.config) resp.
\* XDG_DATA_HOME (default ~/.local/share) for the Unix type, the Windows
\* AppData path for the Windows type and the portable directory for the
\* portable type (a parent that cannot be looked up yields no path); every
\* other argument raises TypeError.
C7_PathSelection ==
    /\ ret.fn = "get_default_settings_path" =>
          IF ret.arg \notin {UNIX_VERSION, WINDOWS_VERSION, WINDOWS_PORTABLE_VERSION}
          THEN ret.out = Raise("TypeError")
          ELSE IF ~LookupSucceeds(ret.arg) THEN ret.out.exc # NoExc
          ELSE /\ ret.out.exc = NoExc
               /\ PathUnder(ret.out.val, ParentOf(ret.arg, xdg_config_home, HomeConfig),
                            << <<"openslides">>, <<"settings", DOT, "py">> >>)
    /\ ret.fn = "get_default_user_data_path" =>
          IF ret.arg \notin {UNIX_VERSION, WINDOWS_VERSION, WINDOWS_PORTABLE_VERSION}
          THEN ret.out = Raise("TypeError")
          ELSE IF ~LookupSucceeds(ret.arg) THEN ret.out.exc # NoExc
          ELSE ret.out = Return(ParentOf(ret.arg, xdg_data_home, HomeData))

\* the settings path of the portable version has been computed
C7_Witness ==
    /\ ret.fn = "get_default_settings_path"
    /\ ret.arg = WINDOWS_PORTABLE_VERSION
    /\ ret.out = Return(<<SEP, "portable", SEP, "openslides", SEP, "settings", DOT, "py">>)

NextSettings ==
    /\ \E settings \in SettingsArguments, args \in Arguments : ensure_settings(settings, args)
    /\ UNCHANGED <<sys_path, environ, serverVars, migrationVars>>

\* XDG_CONFIG_HOME is not read on the way to the settings file
InitSettings ==
    /\ InitPaths
    /\ xdg_config_home = Unset
    /\ xdg_data_home \in {Unset, EnvValue(<<SEP, "xdg">>)}

SpecSettings == InitSettings /\ [][NextSettings]_vars

\* whether a file, or anything, is at a path; the argument of the last call
IsFile(path) == path \in DOMAIN fs /\ fs[path].file
Present(path) == IsFile(path) \/ abspath(path) \in dirs
LastSettings == ret'.arg

\* what a step that is a call of ensure_settings does
C3_EnsureStep ==
    /\ \A path \in SettingsFiles : IsFile(path) => fs'[path] = fs[path]
    /\ ret'.fn = "ensure_settings" =>
          /\ (~Truthy(LastSettings) \/ Present(LastSettings.s))
                => (fs' = fs /\ dirs' = dirs /\ ret'.out = Return(PyNone))
          /\ \A path \in SettingsFiles :
                fs'[path] # fs[path] => (LastSettings = PyStr(path) /\ ~Present(path))

\* C3: ensure_settings(settings, args) writes the settings file only when a
\* path is given and nothing exists at it, and otherwise leaves the file
\* system unchanged; so a file that exists keeps its content for ever, and of
\* the calls on one path only the one that creates the file writes.
C3_SettingsWrittenOnce == [][C3_EnsureStep]_vars

\* a call has written the settings file at a path where none was
C3_Witness ==
    /\ ret.fn = "ensure_settings" /\ Truthy(ret.arg) /\ ret.out = Return(PyNone)
    /\ IsFile(ret.arg.s)
    /\ ret.arg.s # ExistingSettings
    /\ "debug" \in DOMAIN fs[ret.arg.s].content

\* ------------------------------------------------------------- get_port

\* get_port without the fallback: the socket error is swallowed, the port kept
port_of_no_fallback(address, port, bind, listen) ==
    IF port = 80
    THEN [out |-> Return(port),
          socket |-> IF bind THEN <<"socket", "bind", "listen", "close">>
                             ELSE <<"socket", "bind", "close">>]
    ELSE [out |-> Return(port), socket |-> <<>>]

\* the calls get_port(address, port) makes on sockets and its result; bind
\* and listen tell whether s.bind and s.listen succeed or raise socket.error
port_of(address, port, bind, listen) ==
    IF port = 80
    THEN IF ~bind
         THEN [out |-> Return(8000), socket |-> <<"socket", "bind", "close">>]
         ELSE IF ~listen
         THEN [out |-> Return(8000), socket |-> <<"socket", "bind", "listen", "close">>]
         ELSE [out |-> Return(port), socket |-> <<"socket", "bind", "listen", "close">>]
    ELSE [out |-> Return(port), socket |-> <<>>]

Addresses == {<<"0.0.0.0">>, <<"127.0.0.1">>}
Ports == {80, 8000, 8080}

\* the outcomes of s.bind and s.listen: TRUE when the call succeeds, FALSE when
\* it raises socket.error; nothing is bound for a port other than 80, and
\* nothing listens on a socket that was not bound
SocketOutcomes(port) ==
    IF port = 80 THEN {<<TRUE, TRUE>>, <<TRUE, FALSE>>, <<FALSE, FALSE>>}
    ELSE {<<FALSE, FALSE>>}

\* called by the main thread, between its calls of start_browser
get_port(address, port) ==
    /\ caller.pc = "idle"
    /\ \E o \in SocketOutcomes(port) :
          ret' = [fn |-> "get_port", address |-> address, port |-> port,
                  bind |-> o[1], listen |-> o[2],
                  out |-> port_of(address, port, o[1], o[2]).out,
                  socket |-> port_of(address, port, o[1], o[2]).socket]
    /\ UNCHANGED serverVars

\* ------------------------------------------------------ get_browser_url

get_browser_url(address, port) ==
    <<"http://">>
    \o (IF address = <<"0.0.0.0">> THEN <<"localhost">> ELSE address)
    \o (IF port # 80 THEN <<":", ToString(port)>> ELSE <<>>)

\* the urls start_browser is called with
BrowserUrls == {get_browser_url(<<"0.0.0.0">>, 8000), get_browser_url(<<"127.0.0.1">>, 80)}

\* -------------------------------------------------------- start_browser

MaxBrowserCalls == 2

\* browser = webbrowser.get(): the call has its frame, with the url it was given
start_browser(browser_url) ==
    /\ caller.pc = "idle"
    /\ Len(frames) < MaxBrowserCalls
    /\ frames' = Append(frames, [browser_url |-> browser_url, browser |-> "default"])
    /\ caller' = [pc |-> "got_browser"]
    /\ UNCHANGED <<ret, threads, events>>

\* thread = threading.Thread(target=function); thread.start()
ThreadStart ==
    /\ caller.pc = "got_browser"
    /\ threads' = Append(threads, "sleep")
    /\ caller' = [pc |-> "started"]
    /\ UNCHANGED <<ret, frames, events>>

\* start_browser returns
StartBrowserReturn ==
    /\ caller.pc = "started"
    /\ caller' = [pc |-> "idle"]
    /\ UNCHANGED <<ret, frames, threads, events>>

\* function() without its sleep
function_sleep_skipped(t) == [pc |-> "open", events |-> events]

\* function(), run by thread t: time.sleep(1) ...
function_sleep(t) == [pc |-> "open", events |-> Append(events, [thread |-> t, did |-> "slept"])]
\* ... and browser.open(browser_url), both read from the frame of the call
function_open(t) ==
    [pc |-> "done",
     events |-> Append(events, [thread |-> t, did |-> "open",
                                browser |-> frames[t].browser,
                                url |-> frames[t].browser_url])]

ThreadSleep(t) ==
    /\ threads[t] = "sleep"
    /\ threads' = [threads EXCEPT ![t] = function_sleep(t).pc]
    /\ events' = function_sleep(t).events
    /\ UNCHANGED <<ret, caller, frames>>

ThreadOpen(t) ==
    /\ threads[t] = "open"
    /\ threads' = [threads EXCEPT ![t] = function_open(t).pc]
    /\ events' = function_open(t).events
    /\ UNCHANGED <<ret, caller, frames>>


\* ------------------------------------------------------------ SpecServer

ServerStart ==
    /\ caller = [pc |-> "idle"]
    /\ frames = <<>>
    /\ threads = <<>>
    /\ events = <<>>

InitServer ==
    /\ ServerStart
    /\ DjangoOff
    /\ PathsOff
    /\ MigrationOff
    /\ ret = [fn |-> "none"]

NextServer ==
    /\ \/ \E address \in Addresses, port \in Ports : get_port(address, port)
       \/ \E browser_url \in BrowserUrls : start_browser(browser_url)
       \/ ThreadStart
       \/ StartBrowserReturn
       \/ \E t \in DOMAIN threads : ThreadSleep(t)
       \/ \E t \in DOMAIN threads : ThreadOpen(t)
    /\ UNCHANGED <<sys_path, environ, pathVars, migrationVars>>

\* the steps of the background threads, and of the caller inside start_browser
ThreadStep ==
    /\ \E t \in DOMAIN threads : ThreadSleep(t) \/ ThreadOpen(t)
    /\ UNCHANGED <<sys_path, environ, pathVars, migrationVars>>
CallerStep ==
    /\ ThreadStart \/ StartBrowserReturn
    /\ UNCHANGED <<sys_path, environ, pathVars, migrationVars>>

\* a started thread runs on: the interpreter schedules every thread, the sleep
\* ends after a second, and the process does not exit before its threads;
\* the caller goes on to the end of start_browser
SpecServer ==
    InitServer /\ [][NextServer]_vars /\ WF_vars(ThreadStep) /\ WF_vars(CallerStep)

Started(t) == t \in DOMAIN threads
Opens(t) == SelectSeq(events, LAMBDA e : e.thread = t /\ e.did = "open")
EventsOf(t) == SelectSeq(events, LAMBDA e : e.thread = t)

\* what holds of start_browser in every state
C8_Safe ==
    /\ Len(threads) <= Len(frames)
    /\ Len(frames) - Len(threads) = (IF caller.pc = "got_browser" THEN 1 ELSE 0)
    /\ caller.pc = "started" => ENABLED StartBrowserReturn
    /\ \A t \in DOMAIN threads :
          /\ Len(Opens(t)) <= 1
          /\ threads[t] = "done" => Len(Opens(t)) = 1
          /\ Opens(t) # <<>> =>
                /\ Opens(t)[1].url = frames[t].browser_url
                /\ Len(EventsOf(t)) = 2
                /\ EventsOf(t)[1].did = "slept"

\* C8: start_browser(browser_url) starts one background thread and returns
\* without waiting for it; however caller and thread interleave, the browser
\* is opened exactly once, with the given url and only after the thread's
\* sleep has ended; and what the thread reads, the frame of its call, is
\* never written once the call has made it.
C8_FireAndForget ==
    /\ []C8_Safe
    /\ [][\A c \in DOMAIN frames : frames'[c] = frames[c]]_vars
    /\ \A t \in 1..MaxBrowserCalls : Started(t) ~> (Started(t) /\ Len(Opens(t)) = 1)

\* the call has returned while its thread still sleeps
C8_Witness ==
    /\ caller.pc = "idle"
    /\ Len(threads) = 1
    /\ threads[1] = "sleep"
    /\ events = <<>>

\* C2 as stated: with port 80, get_port returns 8000 when binding or
\* listening fails with a socket error, and 80 when the bind succeeds; every
\* other port is returned as given, and no socket is opened for it.
C2_Original ==
    ret.fn = "get_port" =>
        /\ (ret.port = 80 /\ (~ret.bind \/ ~ret.listen)) => ret.out = Return(8000)
        /\ (ret.port = 80 /\ ret.bind) => ret.out = Return(80)
        /\ ret.port # 80 => (ret.out = Return(ret.port) /\ ret.socket = <<>>)

\* C2, amended: with port 80, get_port returns 8000 when binding or listening
\* fails with a socket error, and 80 when both the bind and the listen
\* succeed; every other port is returned as given, and no socket is opened
\* for it. No error reaches the caller, and an opened socket is closed.
C2_PortFallback ==
    ret.fn = "get_port" =>
        /\ ret.out.exc = NoExc
        /\ (ret.port = 80 /\ (~ret.bind \/ ~ret.listen)) => ret.out = Return(8000)
        /\ (ret.port = 80 /\ ret.bind /\ ret.listen) => ret.out = Return(80)
        /\ ret.port # 80 => (ret.out = Return(ret.port) /\ ret.socket = <<>>)
        /\ ret.socket # <<>> => ret.socket[Len(ret.socket)] = "close"

\* port 80 could not be bound and the call has returned 8000
C2_Witness ==
    /\ ret.fn = "get_port" /\ ret.port = 80 /\ ~ret.bind
    /\ ret.out = Return(8000)

\* ------------------------------------------------------- migration 0021

\* the number of motion states in the database
NumStates == 3
StateIds == 1..NumStates

\* the values of required_permission_to_see, a CharField that may be blank
Permissions == {<<>>, <<"motions.can_see_internal">>, <<"motions.can_manage">>}

\* the operations with the field removed before the transformation runs
operations_remove_first == <<"AddField", "RemoveField", "RunPython">>

\* Migration.operations, in the order the migration applies them
operations == <<"AddField", "RunPython", "RemoveField">>
AccessLevelChoices == {0, 1, 2, 3}

\* the operation to apply next, "none" when the migration is through
NextOperation ==
    IF cursor = 0 /\ applied < Len(operations) THEN operations[applied + 1] ELSE "none"

\* row with row[field] = value
WithField(row, field, value) ==
    [f \in DOMAIN row \cup {field} |-> IF f = field THEN value ELSE row[f]]
WithoutField(row, field) == [f \in DOMAIN row \ {field} |-> row[f]]

\* migrations.AddField(model_name="state", name="access_level", default=0)
AddField ==
    /\ NextOperation = "AddField"
    /\ schema' = schema \cup {"access_level"}
    /\ rows' = [id \in DOMAIN rows |-> WithField(rows[id], "access_level", 0)]
    /\ applied' = applied + 1
    /\ UNCHANGED <<original, cursor, faults>>

\* migrations.RunPython(transform_required_permission_to_see_field) begins:
\* State.objects.all()
RunPython ==
    /\ NextOperation = "RunPython"
    /\ cursor' = 1
    /\ UNCHANGED <<schema, rows, original, applied, faults>>

\* the transformation with its test turned round: states without a permission
\* get the level
transform_blank_states(state) ==
    IF state["required_permission_to_see"] = <<>>
    THEN [save |-> TRUE, access_level |-> 1]
    ELSE [save |-> FALSE, access_level |-> 0]

\* the access level the transformation gives a state, and whether it saves it
transform_required_permission_to_see_field(state) ==
    IF state["required_permission_to_see"] # <<>>
    THEN [save |-> TRUE, access_level |-> 1]
    ELSE [save |-> FALSE, access_level |-> 0]

\* one turn of the loop over the states; a missing required_permission_to_see
\* cannot be read and ends the migration, a missing access_level column is
\* not saved
TransformState ==
    /\ cursor \in DOMAIN rows
    /\ IF "required_permission_to_see" \notin schema
       THEN /\ faults' = faults \cup {"read required_permission_to_see"}
            /\ cursor' = 0
            /\ applied' = Len(operations)
            /\ UNCHANGED <<schema, rows, original>>
       ELSE LET t == transform_required_permission_to_see_field(rows[cursor])
            IN /\ IF ~t.save THEN UNCHANGED <<rows, faults>>
                  ELSE IF "access_level" \in schema
                  THEN /\ rows' = [rows EXCEPT
                                     ![cursor] = WithField(@, "access_level", t.access_level)]
                       /\ UNCHANGED faults
                  ELSE /\ faults' = faults \cup {"write access_level"}
                       /\ UNCHANGED rows
               /\ cursor' = cursor + 1
               /\ UNCHANGED <<schema, original, applied>>

\* the loop has handled every state: the operation is applied
RunPythonDone ==
    /\ cursor = Len(rows) + 1
    /\ cursor' = 0
    /\ applied' = applied + 1
    /\ UNCHANGED <<schema, rows, original, faults>>

\* migrations.RemoveField(model_name="state", name="required_permission_to_see")
RemoveField ==
    /\ NextOperation = "RemoveField"
    /\ schema' = schema \ {"required_permission_to_see"}
    /\ rows' = [id \in DOMAIN rows |-> WithoutField(rows[id], "required_permission_to_see")]
    /\ applied' = applied + 1
    /\ UNCHANGED <<original, cursor, faults>>

MigrationStart ==
    /\ schema = {"required_permission_to_see"}
    /\ original \in [StateIds -> Permissions]
    /\ rows = [id \in StateIds |-> [f \in schema |-> original[id]]]
    /\ applied = 0
    /\ cursor = 0
    /\ faults = {}

InitMigration ==
    /\ MigrationStart
    /\ DjangoOff
    /\ PathsOff
    /\ ServerOff
    /\ ret = [fn |-> "none"]

NextMigration ==
    /\ \/ AddField
       \/ RunPython
       \/ TransformState
       \/ RunPythonDone
       \/ RemoveField
    /\ UNCHANGED <<djangoVars, pathVars, serverVars>>

SpecMigration == InitMigration /\ [][NextMigration]_vars

Migrated == applied = Len(operations) /\ cursor = 0

\* C1: after migration 0021 every state whose required_permission_to_see was
\* non-empty has access_level = 1 and every state whose field was empty has
\* access_level = 0; so every access_level lies in 0..3 and none is 2 or 3.
C1_AccessLevels ==
    Migrated =>
        \A id \in StateIds :
            /\ "access_level" \in DOMAIN rows[id]
            /\ rows[id]["access_level"] = (IF original[id] # <<>> THEN 1 ELSE 0)
            /\ rows[id]["access_level"] \in AccessLevelChoices \ {2, 3}

\* the migration is through on states with and without a permission
C1_Witness ==
    /\ Migrated
    /\ \E id \in StateIds : original[id] # <<>> /\ rows[id]["access_level"] = 1
    /\ \E id \in StateIds : original[id] = <<>> /\ rows[id]["access_level"] = 0

\* C9: the migration adds access_level (default 0) before the transformation
\* runs and removes required_permission_to_see only after it has finished: the
\* transformation never reads required_permission_to_see after its removal nor
\* writes access_level before it exists, and in the end no state has a
\* required_permission_to_see field.
C9_FixedOrder ==
    /\ faults = {}
    /\ cursor # 0 => schema = {"required_permission_to_see", "access_level"}
    /\ (applied = 1 /\ cursor = 0) =>
          \A id \in StateIds : rows[id]["access_level"] = 0
    /\ "required_permission_to_see" \notin schema => (Migrated /\ "access_level" \in schema)
    /\ Migrated =>
          /\ "required_permission_to_see" \notin schema
          /\ \A id \in StateIds : "required_permission_to_see" \notin DOMAIN rows[id]

\* the transformation is under way, with both fields in the schema
C9_Witness ==
    /\ cursor = 2
    /\ applied = 1
    /\ original[1] # <<>>
    /\ rows[1]["access_level"] = 1
    /\ "required_permission_to_see" \in DOMAIN rows[2]

\* ------------------------------------------------------------ SpecDjango

InitDjango ==
    /\ DjangoStart
    /\ PathsOff
    /\ ServerOff
    /\ MigrationOff
    /\ ret = [fn |-> "none"]

NextDjango ==
    /\ \/ \E settings_path \in SettingsPaths : setup_django_settings_module(settings_path)
       \/ \E db_settings \in DatabaseSettings : get_database_path_from_settings(db_settings)
    /\ UNCHANGED <<pathVars, serverVars, migrationVars>>

SpecDjango == InitDjango /\ [][NextDjango]_vars

\* the default database entry of the last get_database_path_from_settings call
HasDefault == DEFAULT_DB_ALIAS \in DOMAIN ret.arg
DefaultEntry == ret.arg[DEFAULT_DB_ALIAS]
HasName == "NAME" \in DOMAIN DefaultEntry /\ DefaultEntry["NAME"].s # <<>>
HasEngine == "ENGINE" \in DOMAIN DefaultEntry
DatabaseCalled == ret.fn = "get_database_path_from_settings"

\* C5: get_database_path_from_settings raises DatabaseInSettingsError when
\* the settings have no entry for the default alias and when that entry has
\* no NAME or an empty one; with a non-empty NAME and the sqlite3 engine it
\* returns exactly that NAME.
C5_DatabaseMisconfigured ==
    DatabaseCalled =>
        /\ ~HasDefault => ret.out = Raise("DatabaseInSettingsError")
        /\ HasDefault /\ ~HasName => ret.out = Raise("DatabaseInSettingsError")
        /\ (HasDefault /\ HasName /\ HasEngine /\ DefaultEntry["ENGINE"].s = SQLITE3)
              => ret.out = Return(DefaultEntry["NAME"])

\* a call with an engine and an empty NAME has raised
C5_Witness ==
    /\ DatabaseCalled /\ HasDefault /\ HasEngine
    /\ "NAME" \in DOMAIN DefaultEntry /\ DefaultEntry["NAME"].s = <<>>
    /\ ret.out = Raise("DatabaseInSettingsError")

FileName(path) == SubSeq(path, RFind(path, SEP) + 1, Len(path))
WithoutExtension(name) ==
    IF Contains(name, DOT) THEN SubSeq(name, 1, RFind(name, DOT) - 1) ELSE name

\* what a step that is a call of setup_django_settings_module should do
C10_SetupStep ==
    ret'.fn = "setup_django_settings_module" =>
        LET name == WithoutExtension(FileName(ret'.arg))
        IN IF Contains(name, DOT)
           THEN /\ ret'.out = Raise("ImproperlyConfigured")
                /\ UNCHANGED <<sys_path, environ>>
           ELSE /\ ret'.out = Return(PyNone)
                /\ sys_path' = <<dirname(ret'.arg)>> \o sys_path
                /\ environ' = EnvValue(name)

\* C10: setup_django_settings_module(settings_path) raises
\* ImproperlyConfigured and leaves sys.path and the environment variable
\* unchanged when the file name without its last extension still contains a
\* "."; otherwise it puts the directory of settings_path at the front of
\* sys.path and sets the variable to the file name without its extension.
C10_SetupDjangoSettingsModule == [][C10_SetupStep]_vars

====
